---- MODULE Spec2Model ----
(***************************************************************************)
(* A model of the product-qualification engine                              *)
(* (src/src/product_qualification.py, should_forecast_product) and of the   *)
(* train/test splitter (src/src/models.py, split_data).                     *)
(*                                                                          *)
(* Both are pure functions of a Polars DataFrame.  A DataFrame is modelled  *)
(* as a record [kind, columns, height, data, dtypes]: the set of column     *)
(* names, the row count and, per column, the sequence of its values.  A     *)
(* nullable value is the empty tuple (null) or a one-element tuple <<v>>.   *)
(* A Float64 is an exact rational [n, d] in lowest terms (rounding is not   *)
(* modelled); a Date is its day number.                                     *)
(***************************************************************************)
EXTENDS Integers, Sequences, FiniteSets, TLC

VARIABLES pc, df, kwargs, result, train_days, split

vars == <<pc, df, kwargs, result, train_days, split>>

(***************************************************************************)
(* Bounds of the model.                                                     *)
(***************************************************************************)
\* the longest panel handed to should_forecast_product
MaxRows == 15
\* the largest history_window a call passes
MaxHistoryWindow == 2
\* the longest of the short panels
MaxShortRows == 2
\* the longest frame handed to split_data
MaxSplitRows == 4

(***************************************************************************)
(* Nullable values, Float64 as rationals.                                   *)
(***************************************************************************)
NULL == <<>>

Some(v) == <<v>>

IsNull(x) == x = NULL

Val(x) == x[1]

Abs(k) == IF k < 0 THEN -k ELSE k

Min2(a, b) == IF a <= b THEN a ELSE b

Max2(a, b) == IF a >= b THEN a ELSE b

RECURSIVE Gcd(_, _)
Gcd(a, b) == IF b = 0 THEN a ELSE Gcd(b, a % b)

\* the Float64 n/d, d > 0
F(n, d) ==
    LET g == Gcd(Abs(n), d)
    IN  [n |-> n \div g, d |-> d \div g]

FAdd(a, b) == F(a.n * b.d + b.n * a.d, a.d * b.d)

FDivInt(a, k) == F(a.n, a.d * k)

FLe(a, b) == a.n * b.d <= b.n * a.d

FGe(a, b) == FLe(b, a)

FMin(a, b) == IF FLe(a, b) THEN a ELSE b

(***************************************************************************)
(* The Polars expressions the engine uses, on columns: a column is a        *)
(* sequence of nullable values.  Every comparison and arithmetic operator   *)
(* propagates null.                                                         *)
(***************************************************************************)
\* pl.col(c).gt(0) on an integer column
gt0(col) ==
    [i \in 1..Len(col) |-> IF IsNull(col[i]) THEN NULL ELSE Some(Val(col[i]) > 0)]

\* .cast(pl.Int32) of a Boolean column
cast_Int32(col) ==
    [i \in 1..Len(col) |->
        IF IsNull(col[i]) THEN NULL ELSE Some(IF Val(col[i]) THEN 1 ELSE 0)]

\* .cast(pl.Float64) of a Boolean column
cast_Float64(col) ==
    [i \in 1..Len(col) |->
        IF IsNull(col[i]) THEN NULL ELSE Some(IF Val(col[i]) THEN F(1, 1) ELSE F(0, 1))]

\* .is_not_null(): never null itself
is_not_null(col) == [i \in 1..Len(col) |-> Some(~IsNull(col[i]))]

\* (a - b).dt.total_days() on two Date columns
total_days_between(a, b) ==
    [i \in 1..Len(a) |->
        IF IsNull(a[i]) \/ IsNull(b[i]) THEN NULL ELSE Some(Val(a[i]) - Val(b[i]))]

\* expr >= scalar and expr <= scalar, on Int and on Float64 columns
ge_int(col, k) ==
    [i \in 1..Len(col) |-> IF IsNull(col[i]) THEN NULL ELSE Some(Val(col[i]) >= k)]

le_int(col, k) ==
    [i \in 1..Len(col) |-> IF IsNull(col[i]) THEN NULL ELSE Some(Val(col[i]) <= k)]

ge_float(col, x) ==
    [i \in 1..Len(col) |-> IF IsNull(col[i]) THEN NULL ELSE Some(FGe(Val(col[i]), x))]

le_float(col, x) ==
    [i \in 1..Len(col) |-> IF IsNull(col[i]) THEN NULL ELSE Some(FLe(Val(col[i]), x))]

\* pl.lit(v) in with_columns: broadcast to the frame's height
lit(v, height) == [i \in 1..height |-> v]

\* the sums of the non-null values of the rows lo..hi
RECURSIVE SumInt(_, _, _)
SumInt(col, lo, hi) ==
    IF lo > hi THEN 0
    ELSE (IF IsNull(col[hi]) THEN 0 ELSE Val(col[hi])) + SumInt(col, lo, hi - 1)

RECURSIVE SumFloat(_, _, _)
SumFloat(col, lo, hi) ==
    IF lo > hi THEN F(0, 1)
    ELSE FAdd(IF IsNull(col[hi]) THEN F(0, 1) ELSE Val(col[hi]), SumFloat(col, lo, hi - 1))

\* the first row of the trailing window of size window_size that ends at row
\* i (1-based): the window never reaches past the first row
WindowStart(i, window_size) == Max2(i - window_size + 1, 1)

\* the number of non-null values in the window
NonNullCount(col, i, window_size) ==
    Cardinality({j \in WindowStart(i, window_size)..i : ~IsNull(col[j])})

\* a variant: min_samples=1, a partial window already gives a value
min_samples_one(window_size) == 1

\* rolling_sum and rolling_mean are called without min_samples: it defaults to
\* window_size, and the result is null while the window holds fewer non-null
\* values
min_samples(window_size) == window_size

rolling_sum(col, window_size) ==
    [i \in 1..Len(col) |->
        IF NonNullCount(col, i, window_size) >= min_samples(window_size)
        THEN Some(SumInt(col, WindowStart(i, window_size), i))
        ELSE NULL]

rolling_mean(col, window_size) ==
    [i \in 1..Len(col) |->
        IF NonNullCount(col, i, window_size) >= min_samples(window_size)
        THEN Some(FDivInt(SumFloat(col, WindowStart(i, window_size), i),
                          NonNullCount(col, i, window_size)))
        ELSE NULL]

\* pl.min_horizontal(cols): the row-wise minimum, nulls skipped, null when
\* every value of the row is null
RECURSIVE MinOfSeq(_, _)
MinOfSeq(xs, k) ==
    IF k = 1 THEN xs[1] ELSE FMin(xs[k], MinOfSeq(xs, k - 1))

min_horizontal(cols, height) ==
    [i \in 1..height |->
        LET present == SelectSeq([k \in 1..Len(cols) |-> cols[k][i]],
                                 LAMBDA x : ~IsNull(x))
            values == [k \in 1..Len(present) |-> Val(present[k])]
        IN  IF Len(present) = 0 THEN NULL ELSE Some(MinOfSeq(values, Len(values)))]

\* a & b on Boolean columns: Kleene conjunction
and_kleene(a, b) ==
    [i \in 1..Len(a) |->
        IF a[i] = Some(FALSE) \/ b[i] = Some(FALSE) THEN Some(FALSE)
        ELSE IF IsNull(a[i]) \/ IsNull(b[i]) THEN NULL
        ELSE Some(TRUE)]

\* a variant: the fill is left out
fill_null_forgotten(col, v) == col

\* .fill_null(v)
fill_null(col, v) == [i \in 1..Len(col) |-> IF IsNull(col[i]) THEN Some(v) ELSE col[i]]

(***************************************************************************)
(* DataFrame operations.                                                    *)
(***************************************************************************)
\* df.with_columns(new): columns of new replace same-named columns, others are added
with_columns(frame, new, types) ==
    [frame EXCEPT
        !.columns = frame.columns \cup DOMAIN new,
        !.data = [c \in frame.columns \cup DOMAIN new |->
                    IF c \in DOMAIN new THEN new[c] ELSE frame.data[c]],
        !.dtypes = [c \in frame.columns \cup DOMAIN new |->
                    IF c \in DOMAIN new THEN types[c] ELSE frame.dtypes[c]]]

\* df.drop(names)
drop(frame, names) ==
    [frame EXCEPT
        !.columns = frame.columns \ names,
        !.data = [c \in frame.columns \ names |-> frame.data[c]],
        !.dtypes = [c \in frame.columns \ names |-> frame.dtypes[c]]]

\* the rows lo..hi of a frame, renumbered from 1
Slice(frame, lo, hi) ==
    [frame EXCEPT
        !.height = Max2(hi - lo + 1, 0),
        !.data = [c \in frame.columns |->
                    [i \in 1..Max2(hi - lo + 1, 0) |-> frame.data[c][lo + i - 1]]]]

\* df.head(n): the first n rows; a negative n gives all rows but the last |n|
head(frame, n) ==
    IF n >= 0 THEN Slice(frame, 1, Min2(n, frame.height))
    ELSE Slice(frame, 1, Max2(frame.height + n, 0))

\* df.tail(n): the last n rows; a negative n gives all rows but the first |n|
tail(frame, n) ==
    IF n >= 0 THEN Slice(frame, frame.height - Min2(n, frame.height) + 1, frame.height)
    ELSE Slice(frame, Min2(-n, frame.height) + 1, frame.height)

(***************************************************************************)
(* should_forecast_product (src/src/product_qualification.py).              *)
(***************************************************************************)
\* window_size of the sales-recency rolling sum
RecencyWindow == 14

\* the keyword parameters of should_forecast_product and their defaults
Params ==
    {"min_recent_sales_days", "max_stockout_rate", "min_margin",
     "min_data_quality_pct", "max_inventory_age_days", "history_window"}

Defaults ==
    [min_recent_sales_days |-> 7,
     max_stockout_rate |-> F(1, 2),
     min_margin |-> F(0, 1),
     min_data_quality_pct |-> F(9, 10),
     max_inventory_age_days |-> 180,
     history_window |-> 28]

\* the parameter values of a call that passes the keyword arguments kw
Bind(kw) == [p \in Params |-> IF p \in DOMAIN kw THEN kw[p] ELSE Defaults[p]]

required_cols ==
    {"sales", "date", "launch_date", "margin", "inventory", "current_price", "cost"}

critical_cols == <<"sales", "inventory", "current_price", "cost">>

quality_cols == <<"quality_sales", "quality_inventory", "quality_current_price", "quality_cost">>

Raise(exc) == [status |-> "raise", exc |-> exc, value |-> NULL]

Return(frame) == [status |-> "return", exc |-> "", value |-> Some(frame)]

\* 1. Sales Recency: days with sales > 0 in the last 14 rows
sales_recency(frame) ==
    rolling_sum(cast_Int32(gt0(frame.data["sales"])), RecencyWindow)

pass_sales_recency(frame, cfg) ==
    ge_int(sales_recency(frame), cfg.min_recent_sales_days)

\* 2. Inventory Age: days since launch
days_since_launch(frame) ==
    total_days_between(frame.data["date"], frame.data["launch_date"])

pass_inventory_age(frame, cfg) ==
    le_int(days_since_launch(frame), cfg.max_inventory_age_days)

\* 3. Profitability: rolling average margin
rolling_margin(frame, cfg) ==
    rolling_mean(frame.data["margin"], cfg.history_window)

pass_profitability(frame, cfg) ==
    ge_float(rolling_margin(frame, cfg), cfg.min_margin)

\* 4. Data Quality: rolling non-null rate of one critical column
quality_expr(frame, cfg, c) ==
    rolling_mean(cast_Float64(is_not_null(frame.data[c])), cfg.history_window)

\* a variant: a missing is_stockout column counts as unknown
rolling_stockout_null_fallback(frame, cfg) ==
    IF "is_stockout" \in frame.columns
    THEN rolling_mean(cast_Float64(frame.data["is_stockout"]), cfg.history_window)
    ELSE lit(NULL, frame.height)

\* 5. Stockout Rate: rolling, or the literal 0.0 when the column is missing
rolling_stockout(frame, cfg) ==
    IF "is_stockout" \in frame.columns
    THEN rolling_mean(cast_Float64(frame.data["is_stockout"]), cfg.history_window)
    ELSE lit(Some(F(0, 1)), frame.height)

pass_stockout(frame, cfg) ==
    le_float(rolling_stockout(frame, cfg), cfg.max_stockout_rate)

pass_quality(frame, cfg) ==
    ge_float(frame.data["min_data_quality"], cfg.min_data_quality_pct)

\* the early return for a frame without rows
EmptyResult(frame) ==
    with_columns(frame,
                 [should_forecast |-> lit(NULL, frame.height)],
                 [should_forecast |-> "Boolean"])

\* the frame with the rolling and derived columns
WithAggregates(frame, cfg) ==
    with_columns(frame,
        [recent_sales_count |-> sales_recency(frame),
         days_since_launch |-> days_since_launch(frame),
         rolling_avg_margin |-> rolling_margin(frame, cfg),
         rolling_stockout_rate |-> rolling_stockout(frame, cfg)],
        [recent_sales_count |-> "Int32",
         days_since_launch |-> "Int64",
         rolling_avg_margin |-> "Float64",
         rolling_stockout_rate |-> "Float64"])

\* the quality columns, added temporarily to calculate their minimum
WithQuality(frame, cfg) ==
    with_columns(frame,
        [quality_sales |-> quality_expr(frame, cfg, critical_cols[1]),
         quality_inventory |-> quality_expr(frame, cfg, critical_cols[2]),
         quality_current_price |-> quality_expr(frame, cfg, critical_cols[3]),
         quality_cost |-> quality_expr(frame, cfg, critical_cols[4])],
        [quality_sales |-> "Float64", quality_inventory |-> "Float64",
         quality_current_price |-> "Float64", quality_cost |-> "Float64"])

WithMinQuality(frame) ==
    with_columns(frame,
        [min_data_quality |->
            min_horizontal([k \in 1..Len(quality_cols) |-> frame.data[quality_cols[k]]],
                           frame.height)],
        [min_data_quality |-> "Float64"])

WithPassFlags(frame, cfg) ==
    with_columns(frame,
        [pass_sales_recency |-> pass_sales_recency(frame, cfg),
         pass_inventory_age |-> pass_inventory_age(frame, cfg),
         pass_profitability |-> pass_profitability(frame, cfg),
         pass_stockout_rate |-> pass_stockout(frame, cfg),
         pass_data_quality |-> pass_quality(frame, cfg)],
        [pass_sales_recency |-> "Boolean", pass_inventory_age |-> "Boolean",
         pass_profitability |-> "Boolean", pass_stockout_rate |-> "Boolean",
         pass_data_quality |-> "Boolean"])

\* a variant: the data-quality flag is left out of the conjunction
FinalDecisionWithoutQuality(frame) ==
    fill_null(
        and_kleene(and_kleene(and_kleene(
            frame.data["pass_sales_recency"],
            frame.data["pass_inventory_age"]),
            frame.data["pass_profitability"]),
            frame.data["pass_stockout_rate"]),
        FALSE)

\* the final decision: the conjunction of the five flags, null filled with False
FinalDecision(frame) ==
    fill_null(
        and_kleene(and_kleene(and_kleene(and_kleene(
            frame.data["pass_sales_recency"],
            frame.data["pass_inventory_age"]),
            frame.data["pass_profitability"]),
            frame.data["pass_stockout_rate"]),
            frame.data["pass_data_quality"]),
        FALSE)

\* the rows of 1..k whose mask is true, in order
RECURSIVE TrueRows(_, _)
TrueRows(mask, k) ==
    IF k = 0 THEN << >>
    ELSE IF mask[k] = Some(TRUE) THEN Append(TrueRows(mask, k - 1), k)
    ELSE TrueRows(mask, k - 1)

\* df.filter(mask)
filter(frame, mask) ==
    LET rows == TrueRows(mask, frame.height)
    IN  [frame EXCEPT
            !.height = Len(rows),
            !.data = [c \in frame.columns |->
                        [i \in 1..Len(rows) |-> frame.data[c][rows[i]]]]]

\* a variant: only the qualified rows are kept
WithDecisionQualifiedOnly(frame) ==
    LET decided == with_columns(frame,
                                [should_forecast |-> FinalDecision(frame)],
                                [should_forecast |-> "Boolean"])
    IN  filter(decided, decided.data["should_forecast"])

WithDecision(frame) ==
    with_columns(frame,
                 [should_forecast |-> FinalDecision(frame)],
                 [should_forecast |-> "Boolean"])

\* lines 117-161: the result frame of a non-empty valid input
Qualify(frame, cfg) ==
    LET r1 == WithAggregates(frame, cfg)
        r2 == WithQuality(r1, cfg)
        r3 == WithMinQuality(r2)
        r4 == WithPassFlags(r3, cfg)
        r5 == WithDecision(r4)
    IN  drop(r5, {quality_cols[k] : k \in 1..Len(quality_cols)})

\* a variant: the empty-input shortcut comes before the column check
ValidateEmptyFirst(frame) ==
    IF frame.kind # "DataFrame" THEN "TypeError"
    ELSE IF frame.height = 0 THEN "empty"
    ELSE IF required_cols \ frame.columns # {} THEN "ValueError"
    ELSE "ok"

\* a variant: no empty-input shortcut
ValidateWithoutShortcut(frame) ==
    IF frame.kind # "DataFrame" THEN "TypeError"
    ELSE IF required_cols \ frame.columns # {} THEN "ValueError"
    ELSE "ok"

\* the order of the checks of lines 52-68
Validate(frame) ==
    IF frame.kind # "DataFrame" THEN "TypeError"
    ELSE IF required_cols \ frame.columns # {} THEN "ValueError"
    ELSE IF frame.height = 0 THEN "empty"
    ELSE "ok"

\* a call should_forecast_product(frame, **kw): a keyword that is no parameter
\* of the signature fails the call before its body runs
should_forecast_product(frame, kw) ==
    IF ~(DOMAIN kw \subseteq Params) THEN Raise("TypeError")
    ELSE LET v == Validate(frame)
         IN  IF v \in {"TypeError", "ValueError"} THEN Raise(v)
             ELSE IF v = "empty" THEN Return(EmptyResult(frame))
             ELSE Return(Qualify(frame, Bind(kw)))

(***************************************************************************)
(* split_data (src/src/models.py).                                          *)
(***************************************************************************)
\* a variant: the test part is tail(train_days)
split_data_tail_of_train_days(frame, n) ==
    [train_df |-> head(frame, n), test_df |-> tail(frame, n)]

split_data(frame, n) ==
    [train_df |-> head(frame, n), test_df |-> tail(frame, frame.height - n)]

(***************************************************************************)
(* The inputs of the calls.  A panel is a base row repeated height times,   *)
(* dated on consecutive days from day 0, with at most one row deviating in  *)
(* one field.                                                               *)
(***************************************************************************)
InputDtypes ==
    [date |-> "Date", sales |-> "Int64", launch_date |-> "Date", margin |-> "Float64",
     inventory |-> "Int64", current_price |-> "Float64", cost |-> "Float64",
     is_stockout |-> "Boolean", markdown_pct |-> "Float64",
     should_forecast |-> "Boolean", quality_cost |-> "Float64"]

\* the base data of the unit tests (src/src/unit_tests.py, setUp)
GoodRow ==
    [sales |-> Some(10), launch_date |-> Some(-31), margin |-> Some(F(1, 2)),
     inventory |-> Some(100), current_price |-> Some(F(20, 1)), cost |-> Some(F(10, 1)),
     is_stockout |-> Some(FALSE), markdown_pct |-> Some(F(1, 2)),
     should_forecast |-> Some(TRUE), quality_cost |-> Some(F(0, 1))]

\* an old product without sales (src/src/unit_tests.py, lines 51-53)
OldRow == [GoodRow EXCEPT !.sales = Some(0), !.launch_date = Some(-1461)]

NoInventoryRow == [GoodRow EXCEPT !.inventory = Some(0)]

BaseRows ==
    << GoodRow,
       [GoodRow EXCEPT !.sales = Some(0)],
       NoInventoryRow,
       [GoodRow EXCEPT !.launch_date = Some(-170)],
       [GoodRow EXCEPT !.is_stockout = Some(TRUE)] >>

Deviations ==
    << [f |-> "sales", v |-> NULL],
       [f |-> "sales", v |-> Some(0)],
       [f |-> "margin", v |-> NULL],
       [f |-> "margin", v |-> Some(F(-20, 1))],
       [f |-> "inventory", v |-> NULL],
       [f |-> "launch_date", v |-> NULL],
       [f |-> "is_stockout", v |-> NULL],
       [f |-> "is_stockout", v |-> Some(TRUE)] >>

\* the frame pl.DataFrame(data) with the columns cols and height rows: row p
\* (no row when p = 0) deviates from the base row in the field dev.f
Frame(cols, height, base, p, dev) ==
    [kind |-> "DataFrame",
     columns |-> cols,
     height |-> height,
     data |-> [c \in cols |->
                [i \in 1..height |->
                    IF c = "date" THEN Some(i - 1)
                    ELSE IF i = p /\ c = dev.f THEN dev.v
                    ELSE base[c]]],
     dtypes |-> [c \in cols |-> InputDtypes[c]]]

\* the data dictionary handed over without pl.DataFrame(...)
NotAFrame(cols) ==
    [kind |-> "dict", columns |-> cols, height |-> 0,
     data |-> [c \in cols |-> << >>], dtypes |-> [c \in cols |-> InputDtypes[c]]]

NoFrame == NotAFrame({})

NoKwargs == [k \in {} |-> 0]

NoResult == [status |-> "none", exc |-> "", value |-> NULL]

NoSplit == [train_df |-> NoFrame, test_df |-> NoFrame]

\* the heights of the panels: short ones, around history_window, and long
\* ones, around the 14-row recency window
Heights == (0..MaxShortRows) \cup ((RecencyWindow - 1)..MaxRows)

\* keyword arguments besides history_window
ThresholdCases ==
    << [min_margin |-> F(1, 5)],
       [min_margin |-> F(1, 2)],
       [min_recent_sales_days |-> 14],
       [max_stockout_rate |-> F(0, 1)],
       [max_stockout_rate |-> F(-1, 10)],
       [max_inventory_age_days |-> 40],
       [min_data_quality_pct |-> F(1, 2), min_recent_sales_days |-> 13] >>

\* kw and the keyword argument history_window = w
WithWindow(kw, w) ==
    [k \in DOMAIN kw \cup {"history_window"} |->
        IF k = "history_window" THEN w ELSE kw[k]]

(***************************************************************************)
(* The state machine: a caller makes one call.                              *)
(***************************************************************************)
Init ==
    /\ pc = "idle"
    /\ df = NoFrame
    /\ kwargs = NoKwargs
    /\ result = NoResult
    /\ train_days = 0
    /\ split = NoSplit

\* result = should_forecast_product(frame, **kw)
Call(frame, kw) ==
    /\ pc = "idle"
    /\ pc' = "qualified"
    /\ df' = frame
    /\ kwargs' = kw
    /\ result' = should_forecast_product(frame, kw)
    /\ UNCHANGED <<train_days, split>>

\* the base rows and the deviations that differ on the columns cols
BasesFor(cols) ==
    {b \in 1..Len(BaseRows) :
        b = 1 \/ \E c \in cols \ {"date"} : BaseRows[b][c] # GoodRow[c]}

DeviationsFor(cols) == {k \in 1..Len(Deviations) : Deviations[k].f \in cols}

\* the rows of a panel of height h that may deviate: those near its start
\* and those near its end, where the windows begin and end
DeviatingRows(h) ==
    {p \in 1..h : p <= MaxHistoryWindow + 1 \/ p >= h - MaxHistoryWindow}

\* a panel with every required column, with or without is_stockout, under
\* a history_window
ForecastPanel ==
    \E opt \in {{}, {"is_stockout"}}, h \in Heights, w \in 1..MaxHistoryWindow :
        LET cols == required_cols \cup opt
        IN  \E b \in BasesFor(cols), p \in {0} \cup DeviatingRows(h) :
                \E k \in (IF p = 0 THEN {1} ELSE DeviationsFor(cols)) :
                    Call(Frame(cols, h, BaseRows[b], p, Deviations[k]),
                         [history_window |-> w])

\* the same panels, at most one day without sales or without an inventory
\* figure, under other thresholds
ForecastWithThresholds ==
    \E opt \in {{}, {"is_stockout"}}, h \in Heights, t \in 1..Len(ThresholdCases) :
        LET cols == required_cols \cup opt
            w == MaxHistoryWindow
        IN  \E b \in BasesFor(cols), p \in {0} \cup DeviatingRows(h) :
                \E k \in (IF p = 0 THEN {1} ELSE IF b = 1 THEN {2, 5} ELSE {}) :
                    Call(Frame(cols, h, BaseRows[b], p, Deviations[k]),
                         WithWindow(ThresholdCases[t], w))

\* column sets that lack a required column or carry further columns
OddColumnSets ==
    {required_cols \ {c} : c \in required_cols}
    \cup {required_cols \cup extra :
            extra \in SUBSET {"is_stockout", "markdown_pct", "should_forecast", "quality_cost"}}

OddKwargs ==
    << NoKwargs,
       [history_window |-> 1],
       [history_window |-> 1, clearance_markdown_pct |-> F(3, 10)] >>

\* a frame with other columns, or no frame at all, with the default
\* thresholds or with a keyword of the unit tests
ForecastOddInput ==
    \E cols \in OddColumnSets, t \in 1..Len(OddKwargs) :
        \/ \E h \in Heights, base \in {GoodRow, NoInventoryRow, OldRow} :
                Call(Frame(cols, h, base, 0, Deviations[1]), OddKwargs[t])
        \/ Call(NotAFrame(cols), OddKwargs[t])

\* split = split_data(frame, n)
SplitData ==
    /\ pc = "idle"
    /\ \E h \in 0..MaxSplitRows, n \in (-MaxSplitRows - 2)..(2 * MaxSplitRows + 2) :
        /\ df' = Frame(required_cols, h, GoodRow, 0, Deviations[1])
        /\ train_days' = n
        /\ split' = split_data(df', n)
    /\ pc' = "split"
    /\ UNCHANGED <<kwargs, result>>

Next ==
    \/ ForecastPanel
    \/ ForecastWithThresholds
    \/ ForecastOddInput
    \/ SplitData

Spec == Init /\ [][Next]_vars

(***************************************************************************)
(* Vocabulary of the properties.                                            *)
(***************************************************************************)
\* a finished call of should_forecast_product whose keywords the signature accepts
AcceptedCall == pc = "qualified" /\ DOMAIN kwargs \subseteq Params

\* ... on a frame with every required column
ValidCall ==
    AcceptedCall /\ df.kind = "DataFrame" /\ required_cols \subseteq df.columns

NonEmptyCall == ValidCall /\ df.height > 0

Returned == result.status = "return"

\* the returned frame
Out == Val(result.value)

config == Bind(kwargs)

Rows == 1..df.height

PassFlags ==
    {"pass_sales_recency", "pass_inventory_age", "pass_profitability",
     "pass_stockout_rate", "pass_data_quality"}

Aggregates ==
    {"recent_sales_count", "rolling_avg_margin", "rolling_stockout_rate", "min_data_quality"}

\* every column name the engine writes or drops
EngineColumns ==
    PassFlags \cup Aggregates
    \cup {"days_since_launch", "should_forecast", "quality_sales", "quality_inventory",
          "quality_current_price", "quality_cost"}

AllPass(flags, i) == \A c \in flags : Out.data[c][i] = Some(TRUE)

\* the full output: every derived column is there, with the input's height
FullOutput ==
    /\ Returned
    /\ Out.height = df.height
    /\ PassFlags \cup Aggregates \cup {"days_since_launch", "should_forecast"}
            \subseteq Out.columns

\* C1: on every row of a non-empty valid panel should_forecast is true exactly
\* when all five pass_* flags are true, and false in every other case (some
\* flag false or null).
C1_DecisionIsConjunction ==
    NonEmptyCall =>
        /\ FullOutput
        /\ \A i \in Rows : Out.data["should_forecast"][i] = Some(AllPass(PassFlags, i))

C1_Witness ==
    /\ NonEmptyCall
    /\ Returned
    /\ \E i \in Rows : Out.data["should_forecast"][i] = Some(TRUE)
    /\ \E i \in Rows :
        /\ Out.data["pass_sales_recency"][i] = NULL
        /\ AllPass(PassFlags \ {"pass_sales_recency"}, i)
        /\ Out.data["should_forecast"][i] = Some(FALSE)

\* C2: fail-closed null law: on every row where a contributing rolling
\* aggregate is null, should_forecast is false, never null and never true.
C2_FailClosed ==
    NonEmptyCall =>
        /\ FullOutput
        /\ \A i \in Rows :
            (\E a \in Aggregates : Out.data[a][i] = NULL)
                => Out.data["should_forecast"][i] = Some(FALSE)

C2_Witness ==
    /\ NonEmptyCall
    /\ Returned
    /\ \E i \in Rows :
        /\ Out.data["rolling_avg_margin"][i] = NULL
        /\ AllPass(PassFlags \ {"pass_profitability"}, i)
        /\ Out.data["should_forecast"][i] = Some(FALSE)

\* C3: a frame that lacks a required column makes the call fail with the
\* schema error (the ValueError of line 59) and return no table, whatever the
\* row count, zero rows included.
C3_MissingColumnRaises ==
    (AcceptedCall /\ df.kind = "DataFrame" /\ ~(required_cols \subseteq df.columns))
        => result = Raise("ValueError")

C3_Witness ==
    /\ AcceptedCall
    /\ df.kind = "DataFrame"
    /\ df.height = 0
    /\ required_cols \ df.columns = {"inventory"}
    /\ result = Raise("ValueError")

\* C4: inventory gate: every row with inventory <= 0 has pass_inventory = false
\* and should_forecast = false, whatever the other fields and the thresholds.
C4_InventoryGate ==
    NonEmptyCall =>
        /\ Returned
        /\ \A i \in Rows :
            (df.data["inventory"][i] # NULL /\ Val(df.data["inventory"][i]) <= 0)
                => /\ Out.data["should_forecast"][i] = Some(FALSE)
                   /\ "pass_inventory" \in Out.columns
                   /\ Out.data["pass_inventory"][i] = Some(FALSE)

\* C5: the call accepts a clearance_markdown_pct threshold, and every row whose
\* markdown_pct >= clearance_markdown_pct has pass_clearance_sales = true, also
\* for an old product without sales.
C5_ClearanceCriterion ==
    (/\ pc = "qualified"
     /\ DOMAIN kwargs \subseteq Params \cup {"clearance_markdown_pct"}
     /\ "clearance_markdown_pct" \in DOMAIN kwargs
     /\ df.kind = "DataFrame"
     /\ required_cols \cup {"markdown_pct"} \subseteq df.columns
     /\ df.height > 0)
        => /\ Returned
           /\ "pass_clearance_sales" \in Out.columns
           /\ \A i \in Rows :
                FGe(Val(df.data["markdown_pct"][i]), kwargs.clearance_markdown_pct)
                    => Out.data["pass_clearance_sales"][i] = Some(TRUE)

\* C6: without an is_stockout column the call raises nothing,
\* rolling_stockout_rate is 0.0 on every row, pass_stockout_rate is never null
\* and, when max_stockout_rate >= 0, should_forecast is decided by the other
\* four criteria alone.
C6_MissingStockoutFallback ==
    (NonEmptyCall /\ "is_stockout" \notin df.columns) =>
        /\ FullOutput
        /\ \A i \in Rows :
            /\ Out.data["rolling_stockout_rate"][i] = Some(F(0, 1))
            /\ Out.data["pass_stockout_rate"][i] # NULL
            /\ FGe(config.max_stockout_rate, F(0, 1)) =>
                /\ Out.data["pass_stockout_rate"][i] = Some(TRUE)
                /\ Out.data["should_forecast"][i]
                        = Some(AllPass(PassFlags \ {"pass_stockout_rate"}, i))

C6_Witness ==
    /\ NonEmptyCall
    /\ "is_stockout" \notin df.columns
    /\ Returned
    /\ config.history_window > 1
    /\ Out.data["rolling_avg_margin"][1] = NULL
    /\ Out.data["rolling_stockout_rate"][1] = Some(F(0, 1))
    /\ Out.data["pass_stockout_rate"][1] = Some(TRUE)
    /\ Out.data["should_forecast"][df.height] = Some(TRUE)

\* C7: a zero-row panel with every required column raises nothing and returns
\* a zero-row table whose columns are the input's plus a nullable Boolean
\* should_forecast; no rolling column is computed.
C7_EmptyInput ==
    (ValidCall /\ df.height = 0) =>
        /\ Returned
        /\ Out.height = 0
        /\ Out.columns = df.columns \cup {"should_forecast"}
        /\ Out.dtypes["should_forecast"] = "Boolean"
        /\ \A c \in Out.columns : Out.data[c] = << >>
        /\ \A c \in df.columns \ {"should_forecast"} : Out.dtypes[c] = df.dtypes[c]

C7_Witness ==
    /\ ValidCall
    /\ df.height = 0
    /\ Returned
    /\ Out.columns = required_cols \cup {"is_stockout", "should_forecast"}

\* the days with sales among the 14 rows that end at row i
SalesDays(i) ==
    Cardinality({j \in (i - RecencyWindow + 1)..i : Val(df.data["sales"][j]) > 0})

NonNullRate(c, i) ==
    F(Cardinality({j \in (i - config.history_window + 1)..i : df.data[c][j] # NULL}),
      config.history_window)

NoNullIn(c, i, n) == \A j \in (i - n + 1)..i : df.data[c][j] # NULL

\* the rolling aggregates at row i of the first i rows of the input, evaluated
\* on their own
OnPrefix(i, a) ==
    LET prefix == head(df, i)
    IN  CASE a = "recent_sales_count" -> sales_recency(prefix)[i]
          [] a = "rolling_avg_margin" -> rolling_margin(prefix, config)[i]
          [] a = "rolling_stockout_rate" -> rolling_stockout(prefix, config)[i]
          [] a = "min_data_quality" ->
                WithMinQuality(WithQuality(prefix, config)).data["min_data_quality"][i]

\* C8: trailing windows: the aggregate of window size N at row i (1-based here:
\* rows i-N+1..i) is null while i < N, and the flag derived from it is then
\* null, not false; with a full window it is the aggregate of exactly those N
\* rows, and no later row changes it.  N is 14 for recent_sales_count and
\* history_window for rolling_avg_margin and the data-quality rates.
C8_TrailingWindow ==
    NonEmptyCall =>
        /\ FullOutput
        /\ \A i \in Rows :
            /\ i < RecencyWindow =>
                /\ Out.data["recent_sales_count"][i] = NULL
                /\ Out.data["pass_sales_recency"][i] = NULL
            /\ (i >= RecencyWindow /\ NoNullIn("sales", i, RecencyWindow)) =>
                /\ Out.data["recent_sales_count"][i] = Some(SalesDays(i))
                /\ Out.data["pass_sales_recency"][i]
                        = Some(SalesDays(i) >= config.min_recent_sales_days)
            /\ i < config.history_window =>
                /\ Out.data["rolling_avg_margin"][i] = NULL
                /\ Out.data["pass_profitability"][i] = NULL
                /\ Out.data["min_data_quality"][i] = NULL
                /\ Out.data["pass_data_quality"][i] = NULL
            /\ (i >= config.history_window /\ NoNullIn("margin", i, config.history_window)) =>
                /\ Out.data["rolling_avg_margin"][i] # NULL
                /\ SumFloat(df.data["margin"], i - config.history_window + 1, i)
                        = F(Val(Out.data["rolling_avg_margin"][i]).n * config.history_window,
                            Val(Out.data["rolling_avg_margin"][i]).d)
            /\ i >= config.history_window =>
                \E c \in {"sales", "inventory", "current_price", "cost"} :
                    /\ Out.data["min_data_quality"][i] = Some(NonNullRate(c, i))
                    /\ \A e \in {"sales", "inventory", "current_price", "cost"} :
                            FLe(NonNullRate(c, i), NonNullRate(e, i))
            /\ \A a \in Aggregates : Out.data[a][i] = OnPrefix(i, a)

C8_Witness ==
    /\ NonEmptyCall
    /\ Returned
    /\ df.height > RecencyWindow
    /\ config.history_window > 1
    /\ Out.data["recent_sales_count"][RecencyWindow - 1] = NULL
    /\ Out.data["recent_sales_count"][RecencyWindow] = Some(RecencyWindow - 1)
    /\ Out.data["recent_sales_count"][RecencyWindow + 1] = Some(RecencyWindow)
    /\ Out.data["rolling_avg_margin"][1] = NULL
    /\ Out.data["pass_profitability"][1] = NULL
    /\ Out.data["min_data_quality"][df.height] = Some(F(1, 1))

\* what the engine leaves of the input: the height and the columns
Preserves(cols) ==
    /\ Returned
    /\ Out.height = df.height
    /\ \A c \in cols :
        /\ c \in Out.columns
        /\ Out.data[c] = df.data[c]
        /\ Out.dtypes[c] = df.dtypes[c]

IsPartition ==
    /\ split.train_df.height + split.test_df.height = df.height
    /\ \A c \in df.columns : split.train_df.data[c] \o split.test_df.data[c] = df.data[c]
    /\ {split.train_df.data["date"][i] : i \in 1..split.train_df.height}
        \cap {split.test_df.data["date"][i] : i \in 1..split.test_df.height} = {}

\* the training part is a leading span and the test part a trailing span
LeadingAndTrailing ==
    /\ split.train_df.height <= df.height
    /\ split.test_df.height <= df.height
    /\ \A c \in df.columns :
        /\ split.train_df.data[c] = SubSeq(df.data[c], 1, split.train_df.height)
        /\ split.test_df.data[c]
                = SubSeq(df.data[c], df.height - split.test_df.height + 1, df.height)

\* C10 as stated: split_data partitions the rows for every integer train_days.
C10_AlwaysPartition == pc = "split" => (LeadingAndTrailing /\ IsPartition)

\* C10 as amended: the two parts are always a leading and a trailing span, and
\* they partition the rows exactly when 0 <= train_days <= height, or
\* train_days >= 2 * height, or train_days <= -height; for any other train_days
\* the two spans overlap.
C10_PartitionInRange ==
    pc = "split" =>
        /\ LeadingAndTrailing
        /\ IsPartition <=>
            \/ (0 <= train_days /\ train_days <= df.height)
            \/ train_days >= 2 * df.height
            \/ train_days <= -df.height

C10_Witness ==
    /\ pc = "split"
    /\ split.train_df.height = 1
    /\ split.test_df.height = 2
    /\ IsPartition

====
